---- MODULE Spec2Model ----
(***************************************************************************)
(* A model of Tester.py, a pytest harness that loads test case descriptors *)
(* from Testcase.json, runs each bash script with a timeout, validates the *)
(* result and writes a run directory with result.log and per-test logs.    *)
(*                                                                         *)
(* Text (str, Path names, file contents) is a sequence of one-character    *)
(* strings, so that stem, sanitising, substring and strip are computed.    *)
(* Python's None is the empty tuple; an optional value is <<>> or <<v>>.   *)
(***************************************************************************)
EXTENDS Integers, Sequences, FiniteSets, TLC

VARIABLES
    config,           \* content of Testcase.json as load_test_cases finds it
    collected,        \* "no" | "ok" | "failed": outcome of load_test_cases
    test_cases,       \* the list load_test_cases returned (parametrisation)
    idx,              \* number of parametrised tests already run
    world,            \* the file system and the scripts' behaviour
    TEST_RUN_DIR,     \* global TEST_RUN_DIR: None or <<timestamp>>
    RESULT_LOG_FILE,  \* global RESULT_LOG_FILE: None or the path <<timestamp, name>>
    files,            \* log files on disk: path -> sequence of written chunks
    run_dirs,         \* run directories on disk (their timestamps)
    call,             \* the last operation that ran
    test,             \* None or <<record of the last test_bash_script call>>
    executed,         \* number of execute_bash_script calls made so far
    recorded          \* the log_test_result calls so far, in order

vars == <<config, collected, test_cases, idx, world, TEST_RUN_DIR,
          RESULT_LOG_FILE, files, run_dirs, call, test, executed, recorded>>

---------------------------------------------------------------------------
(* Bounds of the model *)

MaxTests == 2        \* longest configuration list of a harness run
MaxEntries == 2      \* longest configuration list given to the loader alone
MaxLen == 3          \* longest bare-string entry given to the loader alone
MaxClosings == 2     \* finalize_logging calls that append during one run
NumTimestamps == 2   \* distinct seconds datetime.now() may fall in

---------------------------------------------------------------------------
(* Python values *)

None == <<>>

DefaultTimeout == 30

\* str.isalnum() for the characters the model uses
Alnum ==
    {"a", "b", "c", "d", "e", "f", "g", "h", "i", "j", "k", "l", "m", "n",
     "o", "p", "q", "r", "s", "t", "u", "v", "w", "x", "y", "z",
     "A", "B", "C", "D", "E", "F", "G", "H", "I", "J", "K", "L", "M", "N",
     "O", "P", "Q", "R", "S", "T", "U", "V", "W", "X", "Y", "Z",
     "0", "1", "2", "3", "4", "5", "6", "7", "8", "9"}

\* the characters str.strip() and str.rstrip() remove
Whitespace == {" ", "\n", "\t"}

\* dict.get(key, default) and `key in dict`
Has(d, k) == k \in DOMAIN d

Get(d, k, default) == IF k \in DOMAIN d THEN d[k] ELSE default

\* sequences over S of length at most n
SeqsUpTo(S, n) == UNION {[1..k -> S] : k \in 0..n}

\* the last index of character c in s, 0 when there is none (str.rfind + 1)
RFind(s, c) ==
    IF \E i \in 1..Len(s) : s[i] = c
    THEN CHOOSE i \in 1..Len(s) : s[i] = c /\ \A j \in (i+1)..Len(s) : s[j] # c
    ELSE 0

\* the first index of character c in s, 0 when there is none (str.find + 1)
Find(s, c) ==
    IF \E i \in 1..Len(s) : s[i] = c
    THEN CHOOSE i \in 1..Len(s) : s[i] = c /\ \A j \in 1..(i-1) : s[j] # c
    ELSE 0

\* a in b, for strings
IsSubstring(a, b) ==
    \E i \in 0..(Len(b) - Len(a)) : SubSeq(b, i + 1, i + Len(a)) = a

RECURSIVE LStrip(_)
LStrip(s) ==
    IF s # <<>> /\ Head(s) \in Whitespace THEN LStrip(Tail(s)) ELSE s

RECURSIVE RStrip(_)
RStrip(s) ==
    IF s # <<>> /\ s[Len(s)] \in Whitespace
    THEN RStrip(SubSeq(s, 1, Len(s) - 1))
    ELSE s

\* str.strip()
Strip(s) == LStrip(RStrip(s))

---------------------------------------------------------------------------
(* pathlib *)

\* the components of a path string between its "/" separators
RECURSIVE SplitPath(_)
SplitPath(s) ==
    LET i == Find(s, "/") IN
    IF i = 0 THEN <<s>>
    ELSE <<SubSeq(s, 1, i - 1)>> \o SplitPath(SubSeq(s, i + 1, Len(s)))

\* Path(s).parts without the root: empty and "." components are dropped
PathParts(s) ==
    SelectSeq(SplitPath(s), LAMBDA c : c # <<>> /\ c # <<".">>)

\* Path(s).name: the final component, "" when there is none
PathName(s) ==
    LET parts == PathParts(s) IN
    IF parts = <<>> THEN <<>> ELSE parts[Len(parts)]

\* Path(s).stem: the name without its last suffix
PathStem(s) ==
    LET name == PathName(s)
        i == RFind(name, ".")
    IN  IF 1 < i /\ i < Len(name) THEN SubSeq(name, 1, i - 1) ELSE name

\* Path(s).is_absolute()
IsAbsolute(s) == s # <<>> /\ s[1] = "/"

---------------------------------------------------------------------------
(* load_test_cases and pytest_generate_tests *)

TestPrefix == <<"T", "e", "s", "t", " ">>

\* A list entry of Testcase.json is <<"str", s>> (a bare string) or
\* <<"dict", d>> (an object); isinstance(tc, str) reads the tag.
IsStr(entry) == entry[1] = "str"

\* a faulty variant of Normalize: the name keeps the file's suffix
NormalizeKeepsSuffix(entry) ==
    IF IsStr(entry)
    THEN [name |-> TestPrefix \o PathName(entry[2]), script_path |-> entry[2]]
    ELSE entry[2]

\* the descriptor appended for one entry of the list
Normalize(entry) ==
    IF IsStr(entry)
    THEN [name |-> TestPrefix \o PathStem(entry[2]), script_path |-> entry[2]]
    ELSE entry[2]

\* the list comprehension of the loop over test_cases
NormalizeAll(entries) == [i \in 1..Len(entries) |-> Normalize(entries[i])]

\* The file load_test_cases opens: Testcase.json of the working directory
\* when it exists, else the one beside Tester.py. None when neither exists;
\* otherwise <<"invalid">> or <<"list", entries>>.
TestcaseFile(cfg) == IF cfg.cwd # None THEN cfg.cwd ELSE cfg.script_dir

\* load_test_cases(): <<"return", list>>, or <<"fail", reason>> for pytest.fail
LoadTestCases(cfg) ==
    LET f == TestcaseFile(cfg) IN
    IF f = None THEN <<"fail", "not found">>
    ELSE IF f[1][1] = "invalid" THEN <<"fail", "invalid JSON">>
    ELSE <<"return", NormalizeAll(f[1][2])>>

\* pytest_generate_tests: load the descriptors and parametrise test_bash_script
PytestGenerateTests ==
    /\ collected = "no"
    /\ LET r == LoadTestCases(config) IN
       /\ collected' = IF r[1] = "return" THEN "ok" ELSE "failed"
       /\ test_cases' = IF r[1] = "return" THEN r[2] ELSE test_cases
    /\ call' = "load_test_cases"
    /\ UNCHANGED <<config, idx, world, TEST_RUN_DIR, RESULT_LOG_FILE, files,
                   run_dirs, test, executed, recorded>>

---------------------------------------------------------------------------
(* The run logger: setup_logging, log_test_result, finalize_logging *)

\* name of the summary log inside the run directory, without ".log"
ResultLogName == <<"r", "e", "s", "u", "l", "t">>

Header == [kind |-> "header"]

Closing == [kind |-> "closing"]

\* the logger's globals and the log tree, as one value
Logger ==
    [dir |-> TEST_RUN_DIR, log |-> RESULT_LOG_FILE, files |-> files,
     dirs |-> run_dirs]

\* open(path, 'w') then write: the file holds the chunk alone afterwards
OpenWrite(fs, path, chunk) ==
    [q \in DOMAIN fs \cup {path} |-> IF q = path THEN <<chunk>> ELSE fs[q]]

\* open(path, 'a') then write: the chunk follows what the file held
OpenAppend(fs, path, chunk) ==
    [q \in DOMAIN fs \cup {path} |->
        IF q = path
        THEN (IF path \in DOMAIN fs THEN fs[path] ELSE <<>>) \o <<chunk>>
        ELSE fs[q]]

\* a faulty variant of AlreadySetUp: the guard is missing
NeverSetUp(L) == FALSE

\* the guard "if TEST_RUN_DIR is not None: return" of setup_logging
AlreadySetUp(L) == L.dir # None

\* setup_logging() at second ts
SetupLoggingOn(L, ts) ==
    IF AlreadySetUp(L) THEN L
    ELSE [dir   |-> <<ts>>,
          log   |-> <<ts, ResultLogName>>,
          files |-> OpenWrite(L.files, <<ts, ResultLogName>>, Header),
          dirs  |-> L.dirs \cup {ts}]

\* the filter of safe_name: characters that are kept
KeepChar(c) == c \in Alnum \/ c \in {" ", "-", "_"}

\* safe_name.replace(' ', '_') after the filter and rstrip()
SafeName(test_name) ==
    LET kept == RStrip(SelectSeq(test_name, KeepChar))
    IN  [i \in 1..Len(kept) |-> IF kept[i] = " " THEN "_" ELSE kept[i]]

NoOutput == <<"(", "n", "o", " ", "o", "u", "t", "p", "u", "t", ")">>

NoErrors == <<"(", "n", "o", " ", "e", "r", "r", "o", "r", "s", ")">>

\* status of log_test_result; validation_error is None or <<message>>
Status(result, expected_success, validation_error) ==
    IF result.success = expected_success /\ validation_error = None
    THEN "PASSED" ELSE "FAILED"

\* validation_error.split(chr(10))[0]: the message up to its first newline.
\* Only the file-mismatch message has more lines (Expected: / Actual:).
FirstLine(message) ==
    IF message.kind = "file_mismatch"
    THEN [kind |-> "file_mismatch", file |-> message.file]
    ELSE message

\* text[:100]
First100(text) == SubSeq(text, 1, IF Len(text) < 100 THEN Len(text) ELSE 100)

\* test_log_content
TestLogContent(test_name, script_path, result, expected_success, validation_error) ==
    [kind |-> "test_log", test |-> test_name, script |-> script_path,
     status |-> Status(result, expected_success, validation_error),
     expected_success |-> expected_success,
     actual_success |-> result.success,
     returncode |-> result.returncode,
     execution_time |-> result.execution_time,
     stdout |-> IF result.stdout # <<>> THEN result.stdout ELSE NoOutput,
     stderr |-> IF result.stderr # <<>> THEN result.stderr ELSE NoErrors,
     validation_error |-> validation_error]

\* the block appended to result.log
SummaryBlock(test_name, script_path, result, expected_success, validation_error) ==
    [kind |-> "block", test |-> test_name, script |-> script_path,
     status |-> Status(result, expected_success, validation_error),
     execution_time |-> result.execution_time,
     returncode |-> result.returncode,
     script_status |->
        IF result.success # expected_success
        THEN <<expected_success, result.success>> ELSE None,
     validation_error |->
        IF validation_error # None
        THEN <<FirstLine(validation_error[1])>> ELSE None,
     error |->
        IF result.stderr # <<>> THEN <<First100(result.stderr)>> ELSE None]

\* log_test_result(test_name, script_path, result, expected_success,
\* validation_error), with the lazy setup_logging() at second ts
LogTestResultOn(L, ts, test_name, script_path, result, expected_success, validation_error) ==
    LET L1 == IF L.dir = None THEN SetupLoggingOn(L, ts) ELSE L
        test_log_file == <<L1.dir[1], SafeName(test_name)>>
        fs1 == OpenWrite(L1.files, test_log_file,
                   TestLogContent(test_name, script_path, result,
                                  expected_success, validation_error))
        fs2 == OpenAppend(fs1, L1.log,
                   SummaryBlock(test_name, script_path, result,
                                expected_success, validation_error))
    IN  [L1 EXCEPT !.files = fs2]

\* the guard of finalize_logging
CanFinalize(L) == L.log # None /\ L.log \in DOMAIN L.files

\* finalize_logging()
FinalizeLoggingOn(L) ==
    IF CanFinalize(L)
    THEN [L EXCEPT !.files = OpenAppend(L.files, L.log, Closing)]
    ELSE L

Timestamps == 1..NumTimestamps

\* the closing entries result.log holds
Closings(L) ==
    IF L.log # None /\ L.log \in DOMAIN L.files
    THEN Len(SelectSeq(L.files[L.log], LAMBDA e : e.kind = "closing"))
    ELSE 0

\* setup_logging(), as pytest_configure calls it
SetupLogging ==
    /\ \E ts \in Timestamps :
         LET L == SetupLoggingOn(Logger, ts) IN
         /\ TEST_RUN_DIR' = L.dir
         /\ RESULT_LOG_FILE' = L.log
         /\ files' = L.files
         /\ run_dirs' = L.dirs
    /\ call' = "setup_logging"
    /\ UNCHANGED <<config, collected, test_cases, idx, world, test, executed,
                   recorded>>

\* finalize_logging(), as pytest_unconfigure calls it
FinalizeLogging ==
    /\ Closings(Logger) < MaxClosings
    /\ LET L == FinalizeLoggingOn(Logger) IN
         /\ TEST_RUN_DIR' = L.dir
         /\ RESULT_LOG_FILE' = L.log
         /\ files' = L.files
         /\ run_dirs' = L.dirs
    /\ call' = "finalize_logging"
    /\ UNCHANGED <<config, collected, test_cases, idx, world, test, executed,
                   recorded>>

---------------------------------------------------------------------------
(* execute_bash_script *)

\* A path is <<root, text>>: "script_dir" for script_dir / text, "cwd" for
\* a relative path left as it is, "abs" for an absolute one.
ScriptDirPath(p) == IF IsAbsolute(p) THEN <<"abs", p>> ELSE <<"script_dir", p>>

\* Path.exists() for a script
Exists(w, path) == path \in w.existing

RECURSIVE Digits(_)
\* str(n) for a natural number
Digits(n) ==
    LET d == <<"0", "1", "2", "3", "4", "5", "6", "7", "8", "9">>[(n % 10) + 1]
    IN  IF n < 10 THEN <<d>> ELSE Digits(n \div 10) \o <<d>>

TimedOutMessage(timeout) ==
    <<"S", "c", "r", "i", "p", "t", " ", "e", "x", "e", "c", "u", "t", "i",
      "o", "n", " ", "t", "i", "m", "e", "d", " ", "o", "u", "t", " ", "a",
      "f", "t", "e", "r", " ">> \o Digits(timeout)
      \o <<" ", "s", "e", "c", "o", "n", "d", "s">>

\* the dict returned when subprocess.run completes
OnCompleted(b) ==
    [returncode |-> b.returncode, stdout |-> b.stdout, stderr |-> b.stderr,
     execution_time |-> b.duration, success |-> (b.returncode = 0)]

\* the dict returned on subprocess.TimeoutExpired
OnTimeout(timeout) ==
    [returncode |-> -1, stdout |-> <<>>, stderr |-> TimedOutMessage(timeout),
     execution_time |-> timeout, success |-> FALSE]

\* a faulty variant of OnException: the exception leaves the function
OnExceptionPropagates(text) == <<"raise", text>>

\* what "except Exception as e" does with the exception whose str(e) is text
OnException(text) ==
    <<"return", [returncode |-> -1, stdout |-> <<>>, stderr |-> text,
                 execution_time |-> 0, success |-> FALSE]>>

FileNotFoundText == <<"E", "N", "O", "E", "N", "T">>

\* What happens to the child: b is the script's behaviour, a record
\* [kind |-> "error", text] when chmod or the launch raises, else
\* [kind |-> "run", returncode, stdout, stderr, duration].
\* subprocess.run raises TimeoutExpired when the child outlives the timeout.
TimesOut(b, timeout) == b.kind = "run" /\ b.duration > timeout

\* execute_bash_script(script_path, timeout): <<"return", dict>>, or
\* <<"raise", text>> if an exception left the function
ExecuteBashScript(w, script_path, timeout) ==
    LET path == IF script_path[1] = "cwd"
                   /\ Exists(w, <<"script_dir", script_path[2]>>)
                THEN <<"script_dir", script_path[2]>>
                ELSE script_path
    IN  IF ~Exists(w, path) THEN OnException(FileNotFoundText)
        ELSE LET b == w.behaviour[path] IN
             IF b.kind = "error" THEN OnException(b.text)
             ELSE IF TimesOut(b, timeout)
                  THEN <<"return", OnTimeout(timeout)>>
                  ELSE <<"return", OnCompleted(b)>>

---------------------------------------------------------------------------
(* test_bash_script *)

UnnamedTest == <<"U", "n", "n", "a", "m", "e", "d", " ", "t", "e", "s", "t">>

DotSh == <<".", "s", "h">>

NameOf(tc) == Get(tc, "name", UnnamedTest)

ExpectedSuccessOf(tc) == Get(tc, "expected_success", TRUE)

TimeoutOf(tc) == Get(tc, "timeout", DefaultTimeout)

\* script_path after the fallbacks: script_dir / p, then script_dir / p.sh,
\* else the path as given
ResolveScript(w, p) ==
    IF IsAbsolute(p) THEN <<"abs", p>>
    ELSE IF Exists(w, <<"script_dir", p>>) THEN <<"script_dir", p>>
    ELSE IF Exists(w, <<"script_dir", p \o DotSh>>)
         THEN <<"script_dir", p \o DotSh>>
    ELSE <<"cwd", p>>

Passed == [kind |-> "passed"]

AssertionError(message) == [kind |-> "AssertionError", message |-> message]

\* The failure of "assert script_path.exists(), f'...{script_dir / script_path}'":
\* script_dir is assigned only on the relative branch, so for an absolute
\* path evaluating the message raises UnboundLocalError.
NotFoundFailure(name, p, script_path) ==
    IF IsAbsolute(p)
    THEN [kind |-> "UnboundLocalError", variable |-> "script_dir"]
    ELSE AssertionError([kind |-> "script_not_found", test |-> name,
                         script |-> script_path,
                         checked |-> <<script_path, <<"script_dir", p>>>>])

\* the substring check: None or <<message>>
OutputError(tc, result) ==
    IF Has(tc, "expected_output") /\ tc.expected_output # <<>>
       /\ ~IsSubstring(tc.expected_output, result.stdout)
    THEN <<[kind |-> "output_not_found", expected |-> tc.expected_output]>>
    ELSE None

\* a faulty variant of ContentMatches: nothing is stripped
ContentMatchesExact(expected_text, stdout) == expected_text = stdout

\* the comparison with the stripped content of the expected result file
ContentMatches(expected_text, stdout) == Strip(expected_text) = Strip(stdout)

\* the file-content check; previous is validation_error before it
ResultFileError(tc, w, result, previous) ==
    IF Has(tc, "expected_result_file") /\ tc.expected_result_file # <<>>
    THEN LET f == ScriptDirPath(tc.expected_result_file) IN
         IF f \in DOMAIN w.result_files
         THEN IF ContentMatches(w.result_files[f], result.stdout)
              THEN previous
              ELSE <<[kind |-> "file_mismatch",
                      file |-> tc.expected_result_file,
                      expected |-> Strip(w.result_files[f]),
                      actual |-> Strip(result.stdout)]>>
         ELSE <<[kind |-> "file_not_found", file |-> f]>>
    ELSE previous

\* validation_error when log_test_result is reached
ValidationError(tc, w, result) ==
    ResultFileError(tc, w, result, OutputError(tc, result))

\* a faulty variant of Verdict: the validation is reported before the
\* success check
VerdictValidationFirst(tc, w, result) ==
    LET v == ValidationError(tc, w, result) IN
    IF v # None
    THEN [logged |-> TRUE, validation_error |-> v,
          outcome |-> AssertionError(v[1])]
    ELSE IF result.success # ExpectedSuccessOf(tc)
    THEN [logged |-> FALSE, validation_error |-> None,
          outcome |-> AssertionError([kind |-> "success_mismatch",
                                      test |-> NameOf(tc),
                                      expected_success |-> ExpectedSuccessOf(tc)])]
    ELSE [logged |-> TRUE, validation_error |-> None, outcome |-> Passed]

\* What the part of test_bash_script after execute_bash_script does with
\* the result: the assert on success, then the validation, the logging and
\* the re-raise. logged tells whether log_test_result was reached.
Verdict(tc, w, result) ==
    IF result.success # ExpectedSuccessOf(tc)
    THEN [logged |-> FALSE, validation_error |-> None,
          outcome |-> AssertionError([kind |-> "success_mismatch",
                                      test |-> NameOf(tc),
                                      expected_success |-> ExpectedSuccessOf(tc)])]
    ELSE LET v == ValidationError(tc, w, result) IN
         [logged |-> TRUE, validation_error |-> v,
          outcome |-> IF v # None THEN AssertionError(v[1]) ELSE Passed]

\* One call of test_bash_script(tc) in world w: whether the script was
\* executed, what execute_bash_script gave, and how the call ended.
RunTest(tc, w) ==
    IF ~Has(tc, "script_path")
    THEN [executed |-> FALSE, script |-> None, ret |-> None, logged |-> FALSE,
          validation_error |-> None,
          outcome |-> AssertionError([kind |-> "no_script_path",
                                      test |-> NameOf(tc)])]
    ELSE LET script_path == ResolveScript(w, tc.script_path) IN
         IF ~Exists(w, script_path)
         THEN [executed |-> FALSE, script |-> <<script_path>>, ret |-> None,
               logged |-> FALSE, validation_error |-> None,
               outcome |-> NotFoundFailure(NameOf(tc), tc.script_path, script_path)]
         ELSE LET ret == ExecuteBashScript(w, script_path, TimeoutOf(tc)) IN
              IF ret[1] = "raise"
              THEN [executed |-> TRUE, script |-> <<script_path>>,
                    ret |-> <<ret>>, logged |-> FALSE,
                    validation_error |-> None,
                    outcome |-> [kind |-> "Exception"]]
              ELSE LET v == Verdict(tc, w, ret[2]) IN
                   [executed |-> TRUE, script |-> <<script_path>>,
                    ret |-> <<ret>>, logged |-> v.logged,
                    validation_error |-> v.validation_error,
                    outcome |-> v.outcome]

\* test_bash_script(test_case) for the next parametrised descriptor
TestBashScript ==
    /\ collected = "ok"
    /\ idx < Len(test_cases)
    /\ LET tc == test_cases[idx + 1]
           r == RunTest(tc, world)
       IN  /\ test' = <<[tc |-> tc] @@ r>>
           /\ executed' = IF r.executed THEN executed + 1 ELSE executed
           /\ recorded' = IF r.logged THEN Append(recorded, NameOf(tc))
                          ELSE recorded
           /\ \E ts \in Timestamps :
                LET L == IF r.logged
                         THEN LogTestResultOn(Logger, ts, NameOf(tc),
                                  r.script[1], r.ret[1][2],
                                  ExpectedSuccessOf(tc), r.validation_error)
                         ELSE Logger
                IN  /\ TEST_RUN_DIR' = L.dir
                    /\ RESULT_LOG_FILE' = L.log
                    /\ files' = L.files
                    /\ run_dirs' = L.dirs
    /\ idx' = idx + 1
    /\ call' = "test_bash_script"
    /\ UNCHANGED <<config, collected, test_cases, world>>

---------------------------------------------------------------------------
(* Initial states *)

\* the state of the module after import, given the files on disk
Imported(cfg, w) ==
    /\ config = cfg
    /\ world = w
    /\ collected = "no"
    /\ test_cases = <<>>
    /\ idx = 0
    /\ TEST_RUN_DIR = None
    /\ RESULT_LOG_FILE = None
    /\ files = <<>>
    /\ run_dirs = {}
    /\ call = "import"
    /\ test = None
    /\ executed = 0
    /\ recorded = <<>>

Invalid == <<"invalid">>

ListOf(entries) == <<"list", entries>>

\* Where Testcase.json may be: in the working directory, beside Tester.py
\* (the fallback), in both or in neither.
ConfigsOver(contents, fallbacks) ==
    {[cwd |-> c, script_dir |-> None] : c \in {None} \cup {<<x>> : x \in contents}}
    \cup {[cwd |-> None, script_dir |-> <<x>>] : x \in fallbacks}
    \cup {[cwd |-> <<Invalid>>, script_dir |-> <<x>>] : x \in fallbacks}

\* a record of options (each <<>> or <<v>>) as the dict of the fields given
DictOf(options) ==
    [k \in {f \in DOMAIN options : options[f] # <<>>} |-> options[k][1]]

NoWorld == [existing |-> {}, behaviour |-> <<>>, result_files |-> <<>>]

(* A harness run: short lists of a few descriptors, two scripts *)

RunBehaviours ==
    {[kind |-> "run", returncode |-> 0, stdout |-> <<"a">>, stderr |-> <<>>,
      duration |-> 0],
     [kind |-> "run", returncode |-> 1, stdout |-> <<>>, stderr |-> <<"w">>,
      duration |-> 0],
     [kind |-> "run", returncode |-> 0, stdout |-> <<>>, stderr |-> <<>>,
      duration |-> 2]}

RunScripts == {<<"script_dir", <<"s">>>>, <<"script_dir", <<"t">> \o DotSh>>}

RunWorlds ==
    {[existing |-> RunScripts, behaviour |-> b, result_files |-> <<>>] :
        b \in [RunScripts -> RunBehaviours]}

RunEntries ==
    {<<"dict", [name |-> <<"a", " ", "b">>, script_path |-> <<"s">>]>>,
     <<"dict", [name |-> <<"a", "_", "b", "!">>, script_path |-> <<"t">>,
                expected_output |-> <<"a">>]>>,
     <<"dict", [script_path |-> <<"s">>, expected_success |-> FALSE,
                timeout |-> 1]>>,
     <<"dict", [name |-> ResultLogName, script_path |-> <<"s">>]>>}

RunContents ==
    {Invalid} \cup {ListOf(l) : l \in SeqsUpTo(RunEntries, MaxTests)}

Init ==
    \E cfg \in ConfigsOver(RunContents, {ListOf(<<<<"str", <<"s">>>>>>)}),
       w \in RunWorlds :
        Imported(cfg, w)

(* One test: every shape of descriptor, result and expected file *)

TestBehaviours ==
    {[kind |-> "error", text |-> <<"e", "r", "r">>]}
    \cup [kind : {"run"}, returncode : {0, 1},
          stdout : {<<>>, <<"a">>, <<" ", "a">>, <<"b">>},
          stderr : {<<>>}, duration : {0, 2}]

TestDescriptors ==
    {DictOf(o) : o \in
        [name : {<<>>, <<<<"a", " ", "b">>>>},
         script_path : {<<>>, <<<<"s">>>>, <<<<"/", "s">>>>},
         expected_success : {<<>>, <<TRUE>>, <<FALSE>>},
         timeout : {<<>>, <<1>>},
         expected_output : {<<>>, <<<<>>>>, <<<<"a">>>>},
         expected_result_file : {<<>>, <<<<>>>>, <<<<"f">>>>}]}

\* the places where the script of descriptor d may be
ScriptPlaces(d) ==
    IF ~Has(d, "script_path") THEN {}
    ELSE IF IsAbsolute(d.script_path) THEN {<<"abs", d.script_path>>}
    ELSE {<<"script_dir", d.script_path>>,
          <<"script_dir", d.script_path \o DotSh>>,
          <<"cwd", d.script_path>>}

\* the worlds descriptor d may run in: where its script is, how scripts
\* behave, and what its expected result file holds
TestWorlds(d) ==
    {[existing |-> e, behaviour |-> [q \in e |-> b], result_files |-> rf] :
        e \in SUBSET ScriptPlaces(d),
        b \in IF Has(d, "script_path") THEN TestBehaviours
              ELSE {CHOOSE x \in TestBehaviours : TRUE},
        rf \in IF Has(d, "expected_result_file") /\ d.expected_result_file # <<>>
               THEN {<<>>}
                    \cup {[q \in {ScriptDirPath(d.expected_result_file)} |-> c] :
                            c \in {<<"a", " ">>, <<"b">>}}
               ELSE {<<>>}}

TestInit ==
    \E d \in TestDescriptors :
        \E w \in TestWorlds(d) :
            Imported([cwd |-> <<ListOf(<<<<"dict", d>>>>)>>, script_dir |-> None], w)

(* The loader alone: every short bare string, a few objects *)

LoadStrings == SeqsUpTo({"a", ".", "/"}, MaxLen)

LoadEntries ==
    {<<"str", s>> : s \in LoadStrings}
    \cup {<<"dict", d>> : d \in
            {[script_path |-> <<"s">>],
             [name |-> <<"n">>, script_path |-> <<"s">>, timeout |-> 1],
             [name |-> <<"n">>, expected_success |-> FALSE]}}

LoadFixed ==
    {<<"str", <<"a", ".", "a">>>>,
     <<"dict", [name |-> <<"n">>, script_path |-> <<"s">>, timeout |-> 1]>>}

InsertAt(l, i, e) == SubSeq(l, 1, i - 1) \o <<e>> \o SubSeq(l, i, Len(l))

\* lists of at most MaxEntries entries: any entry, at any place among a few
LoadLists ==
    {<<>>} \cup
    UNION {{InsertAt(base, i, e) : i \in 1..(Len(base) + 1), e \in LoadEntries} :
              base \in SeqsUpTo(LoadFixed, MaxEntries - 1)}

LoadContents == {Invalid} \cup {ListOf(l) : l \in LoadLists}

LoadInit ==
    \E cfg \in ConfigsOver(LoadContents, {Invalid, ListOf(<<<<"str", <<"a", ".", "a">>>>>>)}) :
        Imported(cfg, NoWorld)

---------------------------------------------------------------------------
(* Specifications *)

\* a harness run; the logger's functions may be called at any time
Next ==
    \/ PytestGenerateTests
    \/ SetupLogging
    \/ TestBashScript
    \/ FinalizeLogging

Spec == Init /\ [][Next]_vars

\* collection and the tests alone: the logger is set up by the first record
TestNext ==
    \/ PytestGenerateTests
    \/ TestBashScript

TestSpec == TestInit /\ [][TestNext]_vars

\* collection alone
LoadNext == PytestGenerateTests

LoadSpec == LoadInit /\ [][LoadNext]_vars

---------------------------------------------------------------------------
(* Properties *)

\* the record of the last test_bash_script call
LastTest == test[1]

\* the dict execute_bash_script returned in the last test
LastResult == LastTest.ret[1][2]

\* the content of result.log, <<>> when there is none
SummaryLog ==
    IF RESULT_LOG_FILE \in DOMAIN files THEN files[RESULT_LOG_FILE] ELSE <<>>

\* the per-test blocks of result.log, in file order
SummaryBlocks == SelectSeq(SummaryLog, LAMBDA e : e.kind = "block")

\* the per-test log files on disk
PerTestLogs == {p \in DOMAIN files : p # RESULT_LOG_FILE}

IsPrefix(a, b) == Len(a) <= Len(b) /\ SubSeq(b, 1, Len(a)) = a

(* ---- load_test_cases ---- *)

\* st is the file name nm without its extension: the extension is the part
\* from the last dot on, when that dot is neither first nor last in nm
IsStemOf(st, nm) ==
    LET dots == {i \in 1..Len(nm) : nm[i] = "."} IN
    \/ /\ \A i \in dots : i = 1 \/ i = Len(nm) \/ \E j \in dots : j > i
       /\ st = nm
    \/ \E i \in dots :
          /\ 1 < i /\ i < Len(nm)
          /\ \A j \in dots : j <= i
          /\ st \o SubSeq(nm, i, Len(nm)) = nm

\* the file load_test_cases reads, as the configuration gives it
ConfigFile == IF config.cwd # None THEN config.cwd ELSE config.script_dir

\* C8: load_test_cases returns one descriptor per entry, in declaration
\* order; a bare string s becomes exactly {name: "Test " + stem(s),
\* script_path: s}, which is consumed with expected_success = true and
\* timeout = 30; an object is passed through unchanged; a missing or
\* malformed file fails the load and no list is returned.
C8_LoadKeepsEntriesInOrder ==
    collected # "no" =>
        IF ConfigFile = None \/ ConfigFile = <<Invalid>>
        THEN collected = "failed" /\ test_cases = <<>>
        ELSE LET entries == ConfigFile[1][2] IN
             /\ collected = "ok"
             /\ Len(test_cases) = Len(entries)
             /\ \A i \in 1..Len(entries) :
                  LET tc == test_cases[i] IN
                  IF entries[i][1] = "str"
                  THEN /\ DOMAIN tc = {"name", "script_path"}
                       /\ tc.script_path = entries[i][2]
                       /\ \E st \in SeqsUpTo({"a", ".", "/"}, Len(entries[i][2])) :
                            /\ IsStemOf(st, PathName(entries[i][2]))
                            /\ tc.name = <<"T", "e", "s", "t", " ">> \o st
                       /\ ExpectedSuccessOf(tc) = TRUE
                       /\ TimeoutOf(tc) = 30
                  ELSE tc = entries[i][2]

\* a list with an object before a bare string with a suffix was loaded
C8_Witness ==
    /\ collected = "ok"
    /\ Len(test_cases) = 2
    /\ ConfigFile[1][2][1][1] = "dict"
    /\ ConfigFile[1][2][2] = <<"str", <<"a", ".", "a">>>>
    /\ test_cases[2].name = <<"T", "e", "s", "t", " ", "a">>

(* ---- test_bash_script and execute_bash_script ---- *)

\* the last call executed its script and execute_bash_script returned
Executed == test # None /\ LastTest.executed /\ LastTest.ret[1][1] = "return"

\* the expectation of the last descriptor, defaults applied
WantedSuccess ==
    IF "expected_success" \in DOMAIN LastTest.tc
    THEN LastTest.tc.expected_success ELSE TRUE

WantedTimeout ==
    IF "timeout" \in DOMAIN LastTest.tc THEN LastTest.tc.timeout ELSE 30

\* the substring expectation of the last descriptor is met
OutputOk ==
    \/ "expected_output" \notin DOMAIN LastTest.tc
    \/ LastTest.tc.expected_output = <<>>
    \/ IsSubstring(LastTest.tc.expected_output, LastResult.stdout)

\* the expected result file of the last descriptor, where the harness looks
WantedFile ==
    IF IsAbsolute(LastTest.tc.expected_result_file)
    THEN <<"abs", LastTest.tc.expected_result_file>>
    ELSE <<"script_dir", LastTest.tc.expected_result_file>>

\* the file expectation of the last descriptor is met
FileOk ==
    \/ "expected_result_file" \notin DOMAIN LastTest.tc
    \/ LastTest.tc.expected_result_file = <<>>
    \/ /\ WantedFile \in DOMAIN world.result_files
       /\ Strip(world.result_files[WantedFile]) = Strip(LastResult.stdout)

\* C2: an executed test passes iff the success matches the expectation, the
\* expected output (if any) is a substring of stdout, and the expected
\* result file (if any) exists and equals stdout after trimming both.
C2_PassIffAllChecksHold ==
    Executed =>
        (LastTest.outcome = Passed
            <=> (LastResult.success = WantedSuccess) /\ OutputOk /\ FileOk)

\* a test expecting failure passed on a non-zero exit, with the output found
\* and a file that equals stdout only after trimming
C2_Witness ==
    /\ Executed
    /\ LastTest.outcome = Passed
    /\ WantedSuccess = FALSE /\ LastResult.returncode # 0
    /\ "expected_output" \in DOMAIN LastTest.tc
    /\ LastTest.tc.expected_output # <<>>
    /\ "expected_result_file" \in DOMAIN LastTest.tc
    /\ LastTest.tc.expected_result_file # <<>>
    /\ world.result_files[WantedFile] # LastResult.stdout

\* C3: when the success differs from the expectation, the test fails with
\* the success-mismatch message, whatever the output checks would say.
C3_SuccessMismatchReportedFirst ==
    (Executed /\ LastResult.success # WantedSuccess) =>
        /\ LastTest.outcome.kind = "AssertionError"
        /\ LastTest.outcome.message =
              [kind |-> "success_mismatch", test |-> NameOf(LastTest.tc),
               expected_success |-> WantedSuccess]

\* a success mismatch where the substring and the file check fail as well
C3_Witness ==
    /\ Executed
    /\ LastResult.success # WantedSuccess
    /\ ~OutputOk
    /\ ~FileOk

\* the behaviour of the script the last test ran
LastBehaviour == world.behaviour[LastTest.script[1]]

\* C4: execute_bash_script always returns a result with success iff
\* returncode = 0: the child's exit code on completion; returncode -1, the
\* timeout message and execution_time = timeout when the script outlives
\* the timeout; returncode -1, the error text and execution_time 0 when the
\* launch fails.
C4_ExecuteAlwaysReturns ==
    (test # None /\ LastTest.executed) =>
        /\ LastTest.ret[1][1] = "return"
        /\ LastResult.success <=> (LastResult.returncode = 0)
        /\ IF LastBehaviour.kind = "error"
           THEN /\ LastResult.returncode = -1
                /\ LastResult.success = FALSE
                /\ LastResult.stderr = LastBehaviour.text
                /\ LastResult.execution_time = 0
           ELSE IF LastBehaviour.duration > WantedTimeout
           THEN /\ LastResult.returncode = -1
                /\ LastResult.success = FALSE
                /\ LastResult.stderr = TimedOutMessage(WantedTimeout)
                /\ LastResult.execution_time = WantedTimeout
           ELSE LastResult.returncode = LastBehaviour.returncode

\* a script that would have run longer than its timeout was executed
C4_Witness ==
    /\ Executed
    /\ LastBehaviour.kind = "run"
    /\ LastBehaviour.duration > WantedTimeout
    /\ LastResult.execution_time # LastBehaviour.duration

\* the script of the last descriptor is at none of the places looked at
ScriptMissing ==
    /\ test # None
    /\ "script_path" \in DOMAIN LastTest.tc
    /\ LET p == LastTest.tc.script_path IN
       IF IsAbsolute(p) THEN <<"abs", p>> \notin world.existing
       ELSE /\ <<"script_dir", p>> \notin world.existing
            /\ <<"script_dir", p \o <<".", "s", "h">>>> \notin world.existing
            /\ <<"cwd", p>> \notin world.existing

\* C7: a descriptor whose script_path, relative or absolute, resolves to no
\* existing file is never executed and fails with an assertion failure whose
\* message says the script was not found and lists the checked paths.
C7_MissingScriptFailsAssertion ==
    ScriptMissing =>
        /\ ~LastTest.executed
        /\ LastTest.outcome.kind = "AssertionError"
        /\ LastTest.outcome.message.kind = "script_not_found"

\* C10: after the success check passed, when the substring check and the
\* file check both fail, the failure logged and raised is the substring
\* mismatch, the first one recorded.
C10_FirstValidationErrorReported ==
    (Executed /\ LastResult.success = WantedSuccess /\ ~OutputOk /\ ~FileOk) =>
        /\ LastTest.validation_error # None
        /\ LastTest.validation_error[1].kind = "output_not_found"
        /\ LastTest.outcome = [kind |-> "AssertionError",
                               message |-> LastTest.validation_error[1]]

(* ---- the run logger ---- *)

\* C1: every executed test is logged: the per-test log files and the blocks
\* of result.log are as many as the scripts executed.
C1_EveryExecutionLogged ==
    /\ Cardinality(PerTestLogs) = executed
    /\ Len(SummaryBlocks) = executed

\* the logger's globals and the log tree
logs == <<TEST_RUN_DIR, RESULT_LOG_FILE, files, run_dirs>>

\* at most one run directory and one result.log with at most one header,
\* and exactly one of each from the first setup or record on
OneRun ==
    /\ Cardinality(run_dirs) <= 1
    /\ Cardinality({p \in DOMAIN files : p[2] = ResultLogName}) = Cardinality(run_dirs)
    /\ Len(SelectSeq(SummaryLog, LAMBDA e : e.kind = "header")) <= 1
    /\ (TEST_RUN_DIR # None) <=> (run_dirs # {})
    /\ (TEST_RUN_DIR # None) <=> (RESULT_LOG_FILE # None)
    /\ (call = "setup_logging" \/ recorded # <<>>) => Cardinality(run_dirs) = 1

\* C5: run initialisation is idempotent: whatever the calls, one run
\* directory and one result.log are created, and setup_logging called while
\* a run is active changes neither the globals nor any file.
C5_SetupIsIdempotent ==
    /\ []OneRun
    /\ [][(TEST_RUN_DIR # None /\ call' = "setup_logging") => UNCHANGED logs]_vars

\* setup_logging was called after a test had been recorded
C5_Witness ==
    /\ call = "setup_logging"
    /\ recorded # <<>>
    /\ Len(SummaryLog) >= 2

\* C6: the logger only creates files or appends to them: what a log file
\* holds is never overwritten or deleted.
C6_LogsOnlyGrow ==
    [][\A p \in DOMAIN files :
          p \in DOMAIN files' /\ IsPrefix(files[p], files'[p])]_vars

\* C9: result.log starts with the header, holds one block per recorded test
\* in the order recorded, and ends with the closing entry once
\* finalize_logging ran; finalize_logging without a run touches nothing.
C9_SummaryLogLifecycle ==
    /\ RESULT_LOG_FILE # None =>
          /\ SummaryLog # <<>>
          /\ SummaryLog[1] = Header
          /\ Len(SummaryBlocks) = Len(recorded)
          /\ \A i \in 1..Len(recorded) : SummaryBlocks[i].test = recorded[i]
          /\ call = "finalize_logging" =>
                SummaryLog[Len(SummaryLog)] = Closing
    /\ (RESULT_LOG_FILE = None /\ call = "finalize_logging") =>
          files = <<>> /\ run_dirs = {} /\ TEST_RUN_DIR = None

====
